---- MODULE Spec2Model ----
(***************************************************************************)
(* A model of datadiff (src/datadiff/__init__.py): the dispatcher diff,    *)
(* the sequence, mapping and set differs, the canonicalizer hashable and   *)
(* the DataDiff result tree.  Python values are tagged tuples              *)
(* <<type, payload>>; a raised exception is a result record whose kind is  *)
(* the exception class.                                                    *)
(***************************************************************************)
EXTENDS Integers, Sequences, FiniteSets, TLC

VARIABLES a, b, context, compare_with_func, setOrder, pc, result

vars == <<a, b, context, compare_with_func, setOrder, pc, result>>

(***************************************************************************)
(* Bounds of the model.                                                    *)
(***************************************************************************)
MaxLen == 3
MaxVal == 2
MaxContext == 3
MaxElem == 4
MaxKeys == 3
MaxWidth == 2

(***************************************************************************)
(* Python values.                                                          *)
(***************************************************************************)
IntV(n) == <<"int", n>>
\* a text is its sequence of character codes; code 0 is the line break
StrV(s) == <<"str", s>>
\* a callable taking one argument: it accepts it, rejects it or raises
FuncV(beh) == <<"function", beh>>
\* an instance of a class without __hash__, __iter__ and __getitem__
ObjV(n) == <<"object", n>>
\* the exception a callable raised
ExcV(f) == <<"exception", f>>
ListV(s) == <<"list", s>>
TupleV(s) == <<"tuple", s>>
\* a dict is the sequence of its (key, value) items in iteration order
DictV(s) == <<"dict", s>>
SetV(S) == <<"set", S>>

Type(x) == x[1]
Payload(x) == x[2]

NewLine == 0

Max(x, y) == IF x >= y THEN x ELSE y
Min(x, y) == IF x <= y THEN x ELSE y

\* s[i:j] of Python on a sequence: 0-based, a negative index counts from the end
SliceIndex(s, i) == IF i < 0 THEN Max(i + Len(s), 0) ELSE Min(i, Len(s))
Slice(s, i, j) ==
    IF SliceIndex(s, j) <= SliceIndex(s, i) THEN <<>>
    ELSE SubSeq(s, SliceIndex(s, i) + 1, SliceIndex(s, j))

DictKeys(d) == {Payload(d)[i][1] : i \in 1..Len(Payload(d))}
DictGet(d, k) == Payload(d)[CHOOSE i \in 1..Len(Payload(d)) : Payload(d)[i][1] = k][2]

\* Python's == on values: dicts compare regardless of their iteration order
RECURSIVE Canon(_)
Canon(x) ==
    CASE Type(x) = "dict" ->
           <<"dict", {<<Payload(x)[i][1], Canon(Payload(x)[i][2])>> : i \in 1..Len(Payload(x))}>>
      [] Type(x) \in {"list", "tuple"} ->
           <<Type(x), [i \in 1..Len(Payload(x)) |-> Canon(Payload(x)[i])]>>
      [] OTHER -> x
PyEq(x, y) == Canon(x) = Canon(y)

callable(x) == Type(x) = "function"

(***************************************************************************)
(* hashable: the canonical key of a value, or NotHashable.                 *)
(***************************************************************************)
RECURSIVE CanHash(_)
CanHash(s) ==
    CASE Type(s) \in {"list", "tuple"} -> \A i \in 1..Len(Payload(s)) : CanHash(Payload(s)[i])
      [] Type(s) = "dict" ->
           \A i \in 1..Len(Payload(s)) : CanHash(Payload(s)[i][1]) /\ CanHash(Payload(s)[i][2])
      [] Type(s) = "set" -> TRUE
      [] Type(s) = "object" -> FALSE
      [] OTHER -> TRUE

RECURSIVE HashKey(_)
HashKey(s) ==
    CASE Type(s) \in {"list", "tuple"} ->
           <<"tuple", [i \in 1..Len(Payload(s)) |-> HashKey(Payload(s)[i])]>>
      [] Type(s) = "dict" ->
           <<"frozenset", {<<"tuple", <<HashKey(Payload(s)[i][1]), HashKey(Payload(s)[i][2])>> >> :
                              i \in 1..Len(Payload(s))}>>
      [] Type(s) = "set" -> <<"frozenset", Payload(s)>>
      [] OTHER -> s

hashable(s) == IF CanHash(s) THEN [kind |-> "ok", key |-> HashKey(s)]
               ELSE [kind |-> "NotHashable"]

(***************************************************************************)
(* difflib.SequenceMatcher over two sequences of canonical keys, as        *)
(* diff_seq uses it: find_longest_match, get_matching_blocks, get_opcodes  *)
(* and get_grouped_opcodes.  Indices are Python's (0-based, end excluded). *)
(***************************************************************************)
\* the length of the common run ending at a[i], b[j] inside the window
RECURSIVE EndRun(_, _, _, _, _, _)
EndRun(ka, kb, i, j, alo, blo) ==
    IF i >= alo /\ j >= blo /\ ka[i + 1] = kb[j + 1]
    THEN 1 + EndRun(ka, kb, i - 1, j - 1, alo, blo)
    ELSE 0

\* the scan of find_longest_match: i ascending, j ascending, a strictly
\* longer run replaces the best one
RECURSIVE ScanMatch(_, _, _, _, _, _, _, _)
ScanMatch(ka, kb, alo, ahi, blo, bhi, pos, best) ==
    IF pos >= (ahi - alo) * (bhi - blo) THEN best
    ELSE LET i == alo + (pos \div (bhi - blo))
             j == blo + (pos % (bhi - blo))
             k == EndRun(ka, kb, i, j, alo, blo)
             nbest == IF k > best[3] THEN <<i - k + 1, j - k + 1, k>> ELSE best
         IN ScanMatch(ka, kb, alo, ahi, blo, bhi, pos + 1, nbest)

find_longest_match(ka, kb, alo, ahi, blo, bhi) ==
    IF ahi <= alo \/ bhi <= blo THEN <<alo, blo, 0>>
    ELSE ScanMatch(ka, kb, alo, ahi, blo, bhi, 0, <<alo, blo, 0>>)

\* the matching blocks in increasing order (the queue, then the sort)
RECURSIVE MatchBlocks(_, _, _, _, _, _)
\* the blocks around the longest match x = (i, j, k) of the window
MatchBlocksAround(ka, kb, alo, ahi, blo, bhi, x) ==
    IF x[3] = 0 THEN <<>>
    ELSE (IF alo < x[1] /\ blo < x[2] THEN MatchBlocks(ka, kb, alo, x[1], blo, x[2])
          ELSE <<>>)
         \o <<x>>
         \o (IF x[1] + x[3] < ahi /\ x[2] + x[3] < bhi
             THEN MatchBlocks(ka, kb, x[1] + x[3], ahi, x[2] + x[3], bhi) ELSE <<>>)

MatchBlocks(ka, kb, alo, ahi, blo, bhi) ==
    MatchBlocksAround(ka, kb, alo, ahi, blo, bhi,
                      find_longest_match(ka, kb, alo, ahi, blo, bhi))

\* adjacent blocks collapsed into one
RECURSIVE Collapse(_, _, _)
Collapse(blocks, n, cur) ==
    IF n > Len(blocks) THEN (IF cur[3] # 0 THEN <<cur>> ELSE <<>>)
    ELSE LET x == blocks[n]
         IN IF cur[1] + cur[3] = x[1] /\ cur[2] + cur[3] = x[2]
            THEN Collapse(blocks, n + 1, <<cur[1], cur[2], cur[3] + x[3]>>)
            ELSE (IF cur[3] # 0 THEN <<cur>> ELSE <<>>) \o Collapse(blocks, n + 1, x)

get_matching_blocks(ka, kb) ==
    Collapse(MatchBlocks(ka, kb, 0, Len(ka), 0, Len(kb)), 1, <<0, 0, 0>>)
        \o << <<Len(ka), Len(kb), 0>> >>

RECURSIVE Opcodes(_, _, _, _)
Opcodes(blocks, n, i, j) ==
    IF n > Len(blocks) THEN <<>>
    ELSE LET ai == blocks[n][1]
             bj == blocks[n][2]
             size == blocks[n][3]
             tag == IF i < ai /\ j < bj THEN "replace"
                    ELSE IF i < ai THEN "delete"
                    ELSE IF j < bj THEN "insert" ELSE ""
         IN (IF tag # "" THEN << <<tag, i, ai, j, bj>> >> ELSE <<>>)
            \o (IF size # 0 THEN << <<"equal", ai, ai + size, bj, bj + size>> >> ELSE <<>>)
            \o Opcodes(blocks, n + 1, ai + size, bj + size)

get_opcodes(ka, kb) == Opcodes(get_matching_blocks(ka, kb), 1, 0, 0)

\* the loop of get_grouped_opcodes: the groups yielded so far, then the open one
RECURSIVE GroupLoop(_, _, _, _, _)
GroupLoop(codes, n, k, groups, group) ==
    IF k > Len(codes)
    THEN IF group # <<>> /\ ~(Len(group) = 1 /\ group[1][1] = "equal")
         THEN Append(groups, group) ELSE groups
    ELSE LET c == codes[k]
         IN IF c[1] = "equal" /\ c[3] - c[2] > n + n
            THEN GroupLoop(codes, n, k + 1,
                           Append(groups,
                                  Append(group, <<c[1], c[2], Min(c[3], c[2] + n),
                                                  c[4], Min(c[5], c[4] + n)>>)),
                           << <<c[1], Max(c[2], c[3] - n), c[3], Max(c[4], c[5] - n), c[5]>> >>)
            ELSE GroupLoop(codes, n, k + 1, groups, Append(group, c))

\* the fixups of get_grouped_opcodes: no opcode at all, then a leading and a
\* trailing group that show no change
CodesOrEqual(codes) == IF codes = <<>> THEN << <<"equal", 0, 1, 0, 1>> >> ELSE codes

FixLeading(codes, n) ==
    IF codes[1][1] = "equal"
    THEN [codes EXCEPT ![1] = <<@[1], Max(@[2], @[3] - n), @[3], Max(@[4], @[5] - n), @[5]>>]
    ELSE codes

FixTrailing(codes, n) ==
    IF codes[Len(codes)][1] = "equal"
    THEN [codes EXCEPT ![Len(codes)] =
              <<@[1], @[2], Min(@[3], @[2] + n), @[4], Min(@[5], @[4] + n)>>]
    ELSE codes

get_grouped_opcodes(ka, kb, n) ==
    GroupLoop(FixTrailing(FixLeading(CodesOrEqual(get_opcodes(ka, kb)), n), n),
              n, 1, <<>>, <<>>)

(***************************************************************************)
(* DataDiff: the result tree.  Every result, a returned tree or a raised   *)
(* exception, also records in nothashable whether hashable raised          *)
(* NotHashable anywhere in the calls that produced it (a history field).   *)
(***************************************************************************)
DataDiff(datatype, type_start_str, type_end_str) ==
    [kind |-> "DataDiff", datatype |-> datatype, type_start_str |-> type_start_str,
     type_end_str |-> type_end_str, diffs |-> <<>>, nothashable |-> FALSE]

\* DataDiff(datatype) with the default delimiters
DataDiffOf(datatype) == DataDiff(datatype, <<datatype, "([">>, "])")

\* a delimiter that does not start with the type's name
Delim(str) == <<"", str>>

Raise(exc, nh) == [kind |-> exc, nothashable |-> nh]

IsRaised(r) == r.kind \notin {"DataDiff", "str"}

Entry(change, items) == [change |-> change, items |-> items]

multi(dd, change, items) == [dd EXCEPT !.diffs = Append(@, Entry(change, items))]
delete(dd, item) == multi(dd, "delete", <<item>>)
insert(dd, item) == multi(dd, "insert", <<item>>)
equal(dd, item) == multi(dd, "equal", <<item>>)
nested(dd, datadiff) == multi(dd, "datadiff", datadiff)
context_end_container(dd) == multi(dd, "context_end_container", <<>>)
context_marker(dd, a_start, a_end, b_start, b_end) ==
    multi(dd, "context", <<a_start, a_end, b_start, b_end>>)

\* DataDiff.__bool__, and the truth value of the text a multi-line diff returns
Bool(r) ==
    IF r.kind = "str" THEN ~r.empty
    ELSE \E i \in 1..Len(r.diffs) :
             r.diffs[i].change \notin {"equal", "context_end_container", "context"}

\* unified_diff_strings: the text is empty iff the two texts have the same lines
unified_diff_strings(x, y) ==
    [kind |-> "str", empty |-> (x = y), fromtext |-> x, totext |-> y, nothashable |-> FALSE]

DictItem(k, v) == <<"dictitem", <<k, v>> >>
NestedItem(k, v, depth) == <<"dictitem", <<k, v>>, depth>>

\* s[:n] of Python
SliceTo(s, n) == Slice(s, 0, n)

\* the elements of a set in its iteration order
OrderSeq(S) == SelectSeq(setOrder, LAMBDA e : e \in S)

(***************************************************************************)
(* diff_set                                                                *)
(***************************************************************************)
\* the equal elements within the context, and the end marker
SetEqual(dd, eq, ctx) ==
    IF Len(eq) > ctx THEN context_end_container(multi(dd, "equal", SliceTo(eq, ctx)))
    ELSE multi(dd, "equal", SliceTo(eq, ctx))

\* diff_set with a context that is one too large
diff_set_off_by_one(x, y, ctx, depth) ==
    SetEqual(multi(multi(DataDiffOf(Type(x)), "delete", OrderSeq(Payload(x) \ Payload(y))),
                   "insert", OrderSeq(Payload(y) \ Payload(x))),
             OrderSeq(Payload(x) \cap Payload(y)), ctx + 1)

diff_set(x, y, ctx, depth) ==
    SetEqual(multi(multi(DataDiffOf(Type(x)), "delete", OrderSeq(Payload(x) \ Payload(y))),
                   "insert", OrderSeq(Payload(y) \ Payload(x))),
             OrderSeq(Payload(x) \cap Payload(y)), ctx)

RECURSIVE diff(_, _, _, _, _)

(***************************************************************************)
(* diff_seq                                                                *)
(***************************************************************************)
\* compares_with_func(a2, b2): its value, or the exception the callable raised
compares_with_func(a2, b2) ==
    IF ~callable(a2) THEN "false"
    ELSE CASE Payload(a2) = "accept" -> "true"
           [] Payload(a2) = "reject" -> "false"
           [] OTHER -> "raise"

\* one pair of the zip of a replace opcode; st: the chunk's tree cd, the two
\* buffers, realy_diffs and the exception raised so far (err)
\* c: what compares_with_func(a2, b2) gave; nested_diff: what diff(a2, b2) gives
ReplacePairWith(st, a2, b2, c, nested_diff) ==
    IF c = "true" THEN st
    ELSE IF c = "raise" THEN [st EXCEPT !.err = Raise("Exception", FALSE)]
    ELSE IF nested_diff.kind \in {"DiffTypeError", "DiffNotImplementedForType"}
         THEN [st EXCEPT !.deletes = Append(@, a2), !.inserts = Append(@, b2),
                         !.realy = TRUE, !.nh = @ \/ nested_diff.nothashable]
    ELSE IF IsRaised(nested_diff)
         THEN [st EXCEPT !.err = nested_diff, !.nh = @ \/ nested_diff.nothashable]
    ELSE IF ~Bool(nested_diff) THEN [st EXCEPT !.nh = @ \/ nested_diff.nothashable]
    ELSE [st EXCEPT !.cd = nested(multi(multi(@, "delete", st.deletes),
                                        "insert", st.inserts), nested_diff),
                    !.deletes = <<>>, !.inserts = <<>>, !.realy = TRUE,
                    !.nh = @ \/ nested_diff.nothashable]

ReplacePair(st, a2, b2, ctx, depth, cwf) ==
    ReplacePairWith(st, a2, b2, compares_with_func(a2, b2),
                    diff(a2, b2, ctx, depth + 1, cwf))

RECURSIVE ReplaceZip(_, _, _, _, _, _, _)
ReplaceZip(st, as, bs, n, ctx, depth, cwf) ==
    IF n > Min(Len(as), Len(bs)) \/ st.err.kind # "none" THEN st
    ELSE ReplaceZip(ReplacePair(st, as[n], bs[n], ctx, depth, cwf), as, bs, n + 1,
                    ctx, depth, cwf)

\* ReplaceTail without the items of a that zip() truncated
ReplaceTail_truncated(cd, deletes, inserts, sa, sb, i1, i2, j1, j2) ==
    IF i2 - i1 < j2 - j1
    THEN multi(multi(multi(cd, "delete", deletes), "insert", inserts), "insert",
               Slice(sb, j1 + (i2 - i1), j2))
    ELSE multi(multi(cd, "delete", deletes), "insert", inserts)

\* the truncated items of a replace opcode, after the zip
TailOfA(cd, sa, i1, i2, j1, j2) ==
    IF i2 - i1 > j2 - j1 THEN multi(cd, "delete", Slice(sa, i1 + (j2 - j1), i2)) ELSE cd

TailOfB(cd, sb, i1, i2, j1, j2) ==
    IF i2 - i1 < j2 - j1 THEN multi(cd, "insert", Slice(sb, j1 + (i2 - i1), j2)) ELSE cd

ReplaceTail(cd, deletes, inserts, sa, sb, i1, i2, j1, j2) ==
    TailOfB(multi(TailOfA(multi(cd, "delete", deletes), sa, i1, i2, j1, j2),
                  "insert", inserts),
            sb, i1, i2, j1, j2)

\* a replace opcode after its zip loop, unless a pair raised
ReplaceEnd(z, sa, sb, i1, i2, j1, j2) ==
    IF z.err.kind # "none" THEN z
    ELSE [z EXCEPT !.cd = ReplaceTail(z.cd, z.deletes, z.inserts, sa, sb, i1, i2, j1, j2)]

\* one opcode (change, i1, i2, j1, j2) of a chunk
SeqOpcode(st, op, sa, sb, ctx, depth, cwf) ==
    IF op[1] = "replace"
    THEN ReplaceEnd(ReplaceZip([st EXCEPT !.deletes = <<>>, !.inserts = <<>>],
                               Slice(sa, op[2], op[3]), Slice(sb, op[4], op[5]), 1,
                               ctx, depth, cwf),
                    sa, sb, op[2], op[3], op[4], op[5])
    ELSE [st EXCEPT !.cd = multi(@, op[1], IF op[1] = "insert" THEN Slice(sb, op[4], op[5])
                                           ELSE Slice(sa, op[2], op[3])),
                    !.realy = @ \/ op[1] # "equal"]

RECURSIVE SeqChunkOps(_, _, _, _, _, _, _, _)
SeqChunkOps(st, chunk, n, sa, sb, ctx, depth, cwf) ==
    IF n > Len(chunk) \/ st.err.kind # "none" THEN st
    ELSE SeqChunkOps(SeqOpcode(st, chunk[n], sa, sb, ctx, depth, cwf), chunk, n + 1,
                     sa, sb, ctx, depth, cwf)

\* whether the chunk's tree gets the end marker: i2 is the last opcode's
ChunkContinues(chunk, sa) == chunk[Len(chunk)][3] < Len(sa)

\* the clone of the result a chunk starts from, with its context entry
ChunkStart(dd, chunk, cwf) ==
    [cd |-> context_marker([dd EXCEPT !.diffs = <<>>],
                           Max(chunk[1][2] - 1, 0), Max(chunk[Len(chunk)][3] - 1, 0),
                           Max(chunk[1][4] - 1, 0), Max(chunk[Len(chunk)][5] - 1, 0)),
     deletes |-> <<>>, inserts |-> <<>>, realy |-> (cwf = FALSE),
     err |-> [kind |-> "none"], nh |-> dd.nothashable]

\* the end of a chunk: the end marker, and the merge if the chunk really differs
ChunkEnd(dd, st, chunk, sa) ==
    IF st.err.kind # "none" THEN Raise(st.err.kind, st.nh \/ st.err.nothashable)
    ELSE IF ~st.realy THEN [dd EXCEPT !.nothashable = st.nh]
    ELSE IF ChunkContinues(chunk, sa)
         THEN [dd EXCEPT !.diffs = @ \o context_end_container(st.cd).diffs,
                         !.nothashable = st.nh]
    ELSE [dd EXCEPT !.diffs = @ \o st.cd.diffs, !.nothashable = st.nh]

\* one chunk: its own tree, then merged into the result
SeqChunk(dd, chunk, sa, sb, ctx, depth, cwf) ==
    ChunkEnd(dd, SeqChunkOps(ChunkStart(dd, chunk, cwf), chunk, 1, sa, sb, ctx, depth, cwf),
             chunk, sa)

RECURSIVE SeqChunks(_, _, _, _, _, _, _, _)
SeqChunks(dd, chunks, n, sa, sb, ctx, depth, cwf) ==
    IF n > Len(chunks) \/ IsRaised(dd) THEN dd
    ELSE SeqChunks(SeqChunk(dd, chunks[n], sa, sb, ctx, depth, cwf), chunks, n + 1,
                   sa, sb, ctx, depth, cwf)

\* the tree a sequence diff starts from, by the types of a and b
SeqDataDiff(x, y) ==
    IF Type(x) = "tuple" THEN DataDiff("tuple", Delim("("), ")")
    ELSE IF Type(y) = "list" THEN DataDiff("list", Delim("["), "]")
    ELSE DataDiffOf(Type(x))

\* hasattr(a, '__iter__') or hasattr(a, '__getitem__')
IsIterable(x) == Type(x) \in {"list", "tuple", "str", "dict", "set"}

\* [hashable(_) for _ in s]: the keys, or NotHashable
HashableAll(s) ==
    IF \E i \in 1..Len(s) : hashable(s[i]).kind = "NotHashable"
    THEN [kind |-> "NotHashable"]
    ELSE [kind |-> "ok", keys |-> [i \in 1..Len(s) |-> hashable(s[i]).key]]

diff_seq(x, y, ctx, depth, cwf) ==
    IF ~IsIterable(x) THEN Raise("NotSequence", FALSE)
    ELSE IF HashableAll(Payload(x)).kind = "NotHashable" THEN Raise("NotHashable", TRUE)
    ELSE IF HashableAll(Payload(y)).kind = "NotHashable" THEN Raise("NotHashable", TRUE)
    ELSE SeqChunks(SeqDataDiff(x, y),
                   get_grouped_opcodes(HashableAll(Payload(x)).keys,
                                       HashableAll(Payload(y)).keys, ctx),
                   1, Payload(x), Payload(y), ctx, depth, cwf)

\* the except clauses without "except NotHashable: raise"
TryExcept_catch_all(r) == IF ~IsRaised(r) THEN r ELSE Raise("NotSequence", r.nothashable)

\* the except clauses of try_diff_seq on what diff_seq returned or raised
TryExcept(r) ==
    IF ~IsRaised(r) THEN r
    ELSE IF r.kind = "NotHashable" THEN r
    ELSE Raise("NotSequence", r.nothashable)

try_diff_seq(x, y, ctx, depth, cwf) == TryExcept(diff_seq(x, y, ctx, depth, cwf))

(***************************************************************************)
(* diff_dict                                                               *)
(***************************************************************************)
\* the equal entry of a key, under the context budget
AddEqual(st, key, y) ==
    [st EXCEPT !.dd = IF st.ctx # 0 THEN equal(@, DictItem(key, DictGet(y, key))) ELSE @,
               !.ctx = @ - 1]

DeleteInsert(st, key, deleted, inserted) ==
    [st EXCEPT !.dd = insert(delete(@, DictItem(key, deleted)), DictItem(key, inserted))]

\* a key of both whose values differ; nested_diff: what diff(a[key], b[key]) gives
DictKeyUnequal(st, key, av, bv, y, depth, cwf, nested_diff) ==
    IF cwf /\ callable(av)
    THEN CASE Payload(av) = "accept" -> AddEqual(st, key, y)
           [] Payload(av) = "reject" -> DeleteInsert(st, key, av, bv)
           [] OTHER -> DeleteInsert(st, key, ExcV(av), bv)
    ELSE IF nested_diff.kind \in {"DiffTypeError", "DiffNotImplementedForType"}
         THEN [DeleteInsert(st, key, av, bv) EXCEPT !.nh = @ \/ nested_diff.nothashable]
    ELSE IF IsRaised(nested_diff)
         THEN [st EXCEPT !.err = nested_diff, !.nh = @ \/ nested_diff.nothashable]
    ELSE IF ~Bool(nested_diff)
         THEN [AddEqual(st, key, y) EXCEPT !.nh = @ \/ nested_diff.nothashable]
    ELSE [st EXCEPT !.dd = nested(@, NestedItem(key, nested_diff, depth + 1)),
                    !.nh = @ \/ nested_diff.nothashable]

\* one key of a; st: the tree dd, the context left and the exception raised
DictKey(st, key, x, y, depth, cwf) ==
    IF key \notin DictKeys(y) THEN [st EXCEPT !.dd = delete(@, DictItem(key, DictGet(x, key)))]
    ELSE IF PyEq(DictGet(x, key), DictGet(y, key)) THEN AddEqual(st, key, y)
    ELSE DictKeyUnequal(st, key, DictGet(x, key), DictGet(y, key), y, depth, cwf,
                        diff(DictGet(x, key), DictGet(y, key), st.ctx, depth + 1, cwf))

RECURSIVE DictKeysOfA(_, _, _, _, _, _)
DictKeysOfA(st, n, x, y, depth, cwf) ==
    IF n > Len(Payload(x)) \/ st.err.kind # "none" THEN st
    ELSE DictKeysOfA(DictKey(st, Payload(x)[n][1], x, y, depth, cwf), n + 1, x, y,
                     depth, cwf)

\* the keys of b that a does not have
RECURSIVE DictKeysOfB(_, _, _, _)
DictKeysOfB(dd, n, x, y) ==
    IF n > Len(Payload(y)) THEN dd
    ELSE LET key == Payload(y)[n][1]
         IN DictKeysOfB(IF key \notin DictKeys(x)
                        THEN insert(dd, DictItem(key, Payload(y)[n][2])) ELSE dd,
                        n + 1, x, y)

\* abs(hash(key)) of a key that is neither a text nor a number: some number that
\* depends on the key alone
RECURSIVE AbsHash(_)
AbsHash(key) ==
    IF Type(key) = "int" THEN Payload(key)
    ELSE IF Type(key) = "tuple" /\ Len(Payload(key)) > 0
         THEN AbsHash(Payload(key)[1]) + 1 ELSE 0

\* diffitem_dictitem_sort_key: the key, or the exception its evaluation raises.
\* The second component of a nested entry is a dictitem, never a DataDiff, so
\* dictitem[0][0] indexes the mapping key itself.
\* k[0], or the exception
FirstOf(k) ==
    IF Type(k) \notin {"str", "tuple"} THEN <<"TypeError", 0>>
    ELSE IF Len(Payload(k)) = 0 THEN <<"IndexError", 0>>
    ELSE IF Type(k) = "str" THEN StrV(<<Payload(k)[1]>>)
    ELSE Payload(k)[1]

\* the sort key of dictitem[0][0], unless indexing raised
SortKeyOf(key) ==
    IF Type(key) \in {"str", "int", "TypeError", "IndexError"} THEN key
    ELSE IntV(AbsHash(key))

diffitem_dictitem_sort_key(diffitem) ==
    SortKeyOf(IF diffitem.change = "datadiff" THEN FirstOf(Payload(diffitem.items)[1])
              ELSE Payload(diffitem.items[1])[1])

\* < on two texts
RECURSIVE StrLess(_, _)
StrLess(s, t) ==
    IF Len(t) = 0 THEN FALSE
    ELSE IF Len(s) = 0 THEN TRUE
    ELSE IF s[1] # t[1] THEN s[1] < t[1]
    ELSE StrLess(Tail(s), Tail(t))

\* < on two sort keys of the same type
KeyLess(k1, k2) ==
    IF Type(k1) = "int" THEN Payload(k1) < Payload(k2) ELSE StrLess(Payload(k1), Payload(k2))

\* a stable sort: each entry goes after the entries that are not greater
RECURSIVE SortInsert(_, _)
SortInsert(sorted, e) ==
    IF sorted = <<>> THEN <<e>>
    ELSE IF KeyLess(diffitem_dictitem_sort_key(e),
                    diffitem_dictitem_sort_key(sorted[Len(sorted)]))
         THEN Append(SortInsert(SubSeq(sorted, 1, Len(sorted) - 1), e), sorted[Len(sorted)])
         ELSE Append(sorted, e)

RECURSIVE StableSort(_, _, _)
StableSort(diffs, n, sorted) ==
    IF n > Len(diffs) THEN sorted
    ELSE StableSort(diffs, n + 1, SortInsert(sorted, diffs[n]))

\* ddiff.diffs.sort(key=...): the sorted entries, or the exception: a key that
\* cannot be computed, or a text compared with a number
SortWithKeys(diffs, keys) ==
    IF \E i \in 1..Len(keys) : Type(keys[i]) \in {"TypeError", "IndexError"}
    THEN [kind |-> Type(keys[CHOOSE i \in 1..Len(keys) :
                                /\ Type(keys[i]) \in {"TypeError", "IndexError"}
                                /\ \A j \in 1..(i - 1) :
                                       Type(keys[j]) \notin {"TypeError", "IndexError"}])]
    ELSE IF \E i, j \in 1..Len(keys) : Type(keys[i]) # Type(keys[j])
    THEN [kind |-> "TypeError"]
    ELSE [kind |-> "ok", diffs |-> StableSort(diffs, 1, <<>>)]

SortDiffs(diffs) ==
    SortWithKeys(diffs, [i \in 1..Len(diffs) |-> diffitem_dictitem_sort_key(diffs[i])])

\* the sort and the end marker; st: the state after the keys of a, ddiff: the
\* tree after the keys of b, sorted: what the sort gives
DictSorted(st, ddiff, sorted) ==
    IF sorted.kind # "ok" THEN Raise(sorted.kind, st.nh)
    ELSE IF st.ctx < 0
         THEN context_end_container([ddiff EXCEPT !.diffs = sorted.diffs,
                                                  !.nothashable = st.nh])
    ELSE [ddiff EXCEPT !.diffs = sorted.diffs, !.nothashable = st.nh]

DictAfterB(st, ddiff) == DictSorted(st, ddiff, SortDiffs(ddiff.diffs))

\* the rest of diff_dict after the keys of a, unless one of them raised
DictAfterA(st, x, y) ==
    IF st.err.kind # "none" THEN Raise(st.err.kind, st.nh \/ st.err.nothashable)
    ELSE DictAfterB(st, DictKeysOfB(st.dd, 1, x, y))

diff_dict(x, y, ctx, depth, cwf) ==
    DictAfterA(DictKeysOfA([dd |-> DataDiff("dict", Delim("{"), "}"), ctx |-> ctx,
                            err |-> [kind |-> "none"], nh |-> FALSE],
                           1, x, y, depth, cwf),
               x, y)

(***************************************************************************)
(* diff: the dispatcher                                                    *)
(***************************************************************************)
\* the left value called on the right one, when the types differ
DiffWithFunc(x, y) ==
    CASE Payload(x) = "accept" -> equal(DataDiffOf(Type(y)), y)
      [] Payload(x) = "reject" -> insert(delete(DataDiffOf(Type(y)), x), y)
      [] OTHER -> insert(delete(DataDiffOf(Type(y)), ExcV(x)), y)

\* except NotSequence: raise DiffNotImplementedForType(type(a))
ExceptNotSequence(r) ==
    IF r.kind = "NotSequence" THEN Raise("DiffNotImplementedForType", r.nothashable) ELSE r

IsMultiLine(x) == \E i \in 1..Len(Payload(x)) : Payload(x)[i] = NewLine

diff(x, y, ctx, depth, cwf) ==
    IF Type(x) = "str" /\ Type(y) = "str"
    THEN IF IsMultiLine(x) \/ IsMultiLine(y) THEN unified_diff_strings(x, y)
         ELSE Raise("DiffNotImplementedForType", FALSE)
    ELSE IF Type(x) # Type(y)
    THEN IF cwf /\ callable(x) THEN DiffWithFunc(x, y)
         ELSE Raise("DiffTypeError", FALSE)
    ELSE IF Type(x) = "dict" THEN diff_dict(x, y, ctx, depth, cwf)
    ELSE IF Type(x) = "set" THEN diff_set(x, y, ctx, depth)
    ELSE ExceptNotSequence(try_diff_seq(x, y, ctx, depth, cwf))

(***************************************************************************)
(* The inputs of a call and the call.                                      *)
(***************************************************************************)
\* the default of the context parameter
DefaultContext == 3

Ints == {IntV(n) : n \in 1..MaxVal}
SeqsOf(S, n) == UNION {[1..k -> S] : k \in 0..n}
Perms(S) ==
    {s \in [1..Cardinality(S) -> S] : \A i, j \in 1..Cardinality(S) : i # j => s[i] # s[j]}

\* flat sequences of numbers
InitSeq == /\ \E t \in {"list", "tuple"} :
                /\ a \in {<<t, s>> : s \in SeqsOf(Ints, MaxLen)}
                /\ b \in {<<t, s>> : s \in SeqsOf(Ints, MaxLen)}
           /\ context \in 0..MaxContext
           /\ compare_with_func \in BOOLEAN
           /\ setOrder = <<>>
           /\ pc = "call"
           /\ result = [kind |-> "none"]

\* sets of numbers, in any iteration order
SetElems == {IntV(n) : n \in 1..MaxElem}

InitSet == /\ a \in {SetV(S) : S \in SUBSET SetElems}
           /\ b \in {SetV(S) : S \in SUBSET SetElems}
           /\ context \in 0..MaxContext
           /\ compare_with_func = FALSE
           /\ setOrder \in Perms(SetElems)
           /\ pc = "call"
           /\ result = [kind |-> "none"]

\* mappings with numeric keys or with text keys ('a', 'ab', 'b'), whose values
\* are numbers and lists of numbers
NumericKeys == {IntV(n) : n \in 1..MaxKeys}
TextKeys == {StrV(<<1>>), StrV(<<1, 2>>), StrV(<<2>>)}
DictValues == {IntV(1), ListV(<<IntV(1)>>), ListV(<<IntV(2)>>)}
DictsOver(K) ==
    {DictV(s) : s \in {s \in SeqsOf(K \X DictValues, MaxKeys) :
                          \A i, j \in 1..Len(s) : i # j => s[i][1] # s[j][1]}}
\* b in one iteration order: the differ reads b by key
AscendingDictsOver(K) ==
    {d \in DictsOver(K) : \A i, j \in 1..Len(Payload(d)) :
          i < j => KeyLess(Payload(d)[i][1], Payload(d)[j][1])}

InitDict == /\ \E K \in {NumericKeys, TextKeys} :
                 /\ a \in DictsOver(K)
                 /\ b \in AscendingDictsOver(K)
            /\ context \in 0..MaxContext
            /\ compare_with_func \in BOOLEAN
            /\ setOrder = <<>>
            /\ pc = "call"
            /\ result = [kind |-> "none"]

\* nested values: numbers, callables, an unhashable object, texts, and lists,
\* tuples, mappings and sets of them
Leaves ==
    Ints \cup {FuncV("accept"), FuncV("reject"), FuncV("raise"), ObjV(1), StrV(<<1>>),
               StrV(<<1, NewLine, 2>>)}
Pair11 == TupleV(<<IntV(1), IntV(1)>>)
NestedOrder == <<IntV(1), Pair11>>
Inner ==
    {ListV(<<>>), TupleV(<<>>), DictV(<<>>), SetV({}), SetV({IntV(1)}), SetV({Pair11})}
        \cup {ListV(<<l>>) : l \in Leaves} \cup {TupleV(<<l>>) : l \in Leaves}
        \cup {DictV(<< <<IntV(1), l>> >>) : l \in Leaves}
Deep == {ListV(<<x>>) : x \in Inner} \cup {DictV(<< <<IntV(1), x>> >>) : x \in Inner}
Elems == Leaves \cup Inner \cup Deep
Wrap(w, x) ==
    CASE w = "list" -> ListV(<<x>>)
      [] w = "dict" -> DictV(<< <<IntV(1), x>> >>)
      [] OTHER -> x
WideElems == {IntV(1), FuncV("accept"), FuncV("raise"), ObjV(1), ListV(<<IntV(2)>>)}

InitNested == /\ \/ /\ \E w \in {"list", "dict", "self"} :
                         \E x, y \in Elems : a = Wrap(w, x) /\ b = Wrap(w, y)
                    /\ context = DefaultContext
                 \/ /\ a \in {ListV(s) : s \in SeqsOf(WideElems, MaxWidth)}
                    /\ b \in {ListV(s) : s \in SeqsOf(WideElems, MaxWidth)}
                    /\ context \in {0, DefaultContext}
              /\ compare_with_func \in BOOLEAN
              /\ setOrder = NestedOrder
              /\ pc = "call"
              /\ result = [kind |-> "none"]

\* result = diff(a, b, context=context, compare_with_func=compare_with_func)
Call == /\ pc = "call"
        /\ result' = diff(a, b, context, 0, compare_with_func)
        /\ pc' = "done"
        /\ UNCHANGED <<a, b, context, compare_with_func, setOrder>>

Next == Call

\* every input of the model
Init == InitSeq \/ InitSet \/ InitDict \/ InitNested
Spec == Init /\ [][Next]_vars

SpecSeq == InitSeq /\ [][Next]_vars
SpecSet == InitSet /\ [][Next]_vars
SpecDict == InitDict /\ [][Next]_vars
SpecNested == InitNested /\ [][Next]_vars

(***************************************************************************)
(* The properties.                                                         *)
(***************************************************************************)
Done == pc = "done"
IsTree(r) == r.kind = "DataDiff"
Range(s) == {s[i] : i \in 1..Len(s)}
NoDuplicates(s) == \A i, j \in 1..Len(s) : i # j => s[i] # s[j]
EntriesOf(r, kinds) == {i \in 1..Len(r.diffs) : r.diffs[i].change \in kinds}
Markers(r) == EntriesOf(r, {"context_end_container"})

\* the items of the entries of the given kinds, in entry order
RECURSIVE ItemsFrom(_, _, _)
ItemsFrom(diffs, n, kinds) ==
    IF n > Len(diffs) THEN <<>>
    ELSE (IF diffs[n].change \in kinds THEN diffs[n].items ELSE <<>>)
         \o ItemsFrom(diffs, n + 1, kinds)
ItemsOf(r, kinds) == ItemsFrom(r.diffs, 1, kinds)

IsContainer(x) == Type(x) \in {"list", "tuple", "dict", "set"}

(* C1: for every supported value x (list, tuple, mapping, set, empty and      *)
(* nested ones included) diff(x, x) returns a tree with no delete, insert or  *)
(* nested entry, so that its truth value is false.                            *)
C1_SelfDiffIsEmpty ==
    (Done /\ a = b /\ IsContainer(a) /\ CanHash(a)) => (IsTree(result) /\ ~Bool(result))

\* the keys of a that the mapping differ marks as equal, in a's iteration order,
\* when the values are numbers and lists of numbers and none is callable
EqualKeys == SelectSeq([i \in 1..Len(Payload(a)) |-> Payload(a)[i][1]],
                       LAMBDA k : k \in DictKeys(b) /\ PyEq(DictGet(a, k), DictGet(b, k)))
EntryKey(e) == Payload(e.items[1])[1]

(* C2: the mapping differ emits min(context, E) equal entries, those of the   *)
(* first equal keys in a's iteration order, E being the number of keys marked *)
(* equal, and one end marker, as the last entry, iff E > context.             *)
C2_EqualEntriesWithinContext ==
    (Done /\ Type(a) = "dict" /\ IsTree(result)) =>
        LET E == Len(EqualKeys)
            shown == EntriesOf(result, {"equal"})
        IN /\ Cardinality(shown) = Min(context, E)
           /\ {EntryKey(result.diffs[i]) : i \in shown}
                  = Range(SubSeq(EqualKeys, 1, Min(context, E)))
           /\ Markers(result) = IF E > context THEN {Len(result.diffs)} ELSE {}

(* C3: for mappings with text or numeric keys the sort of the mapping differ  *)
(* succeeds, every nested entry comes before every other entry, and the       *)
(* delete, insert and equal entries are in ascending order of their key.      *)
C3_NestedFirstThenByKey ==
    (Done /\ Type(a) = "dict") =>
        /\ IsTree(result)
        /\ \A i, j \in 1..Len(result.diffs) :
              (i < j /\ result.diffs[j].change = "datadiff")
                  => result.diffs[i].change = "datadiff"
        /\ \A i, j \in EntriesOf(result, {"delete", "insert", "equal"}) :
              i < j => ~KeyLess(EntryKey(result.diffs[j]), EntryKey(result.diffs[i]))

(* C4: with compare_with_func false the sequence differ never calls a         *)
(* callable element of a as a predicate: a callable of a that b does not hold *)
(* is never skipped as equal, it is among the deleted items of the tree.      *)
C4_CallableIsNotAPredicate ==
    (Done /\ ~compare_with_func /\ Type(a) = "list" /\ Type(b) = "list" /\ IsTree(result)) =>
        \A i \in 1..Len(Payload(a)) :
            (callable(Payload(a)[i]) /\ Payload(a)[i] \notin Range(Payload(b)))
                => Payload(a)[i] \in Range(ItemsOf(result, {"delete"}))

(* C5: diff on two lists, two tuples or two mappings whose leaves are all     *)
(* hashable never fails with DiffTypeError or DiffNotImplementedForType, for  *)
(* either value of compare_with_func and also when elements are callables     *)
(* that return false or raise.                                                *)
C5_NestedFailuresAreCaught ==
    (Done /\ Type(a) = Type(b) /\ Type(a) \in {"list", "tuple", "dict"}
          /\ CanHash(a) /\ CanHash(b))
        => result.kind \notin {"DiffTypeError", "DiffNotImplementedForType"}

(* C6: a NotHashable that hashable raises at any nesting depth reaches the    *)
(* caller of diff as NotHashable: no call site turns it into a delete and an  *)
(* insert, into NotSequence or into DiffNotImplementedForType.                *)
C6_NotHashablePropagates ==
    (Done /\ result.nothashable) => result.kind = "NotHashable"

\* hashable raised below a mapping and below a list: at depth one or more
C6_Witness ==
    /\ Done /\ result.kind = "NotHashable" /\ result.nothashable
    /\ Type(a) = "dict" /\ Len(Payload(a)) = 1 /\ Type(Payload(a)[1][2]) = "dict"

\* the same variant at every position, at every depth
RECURSIVE SameVariants(_, _)
SameVariants(x, y) ==
    /\ Type(x) = Type(y)
    /\ Type(x) \in {"list", "tuple"} =>
           /\ Len(Payload(x)) = Len(Payload(y))
           /\ \A i \in 1..Len(Payload(x)) : SameVariants(Payload(x)[i], Payload(y)[i])
    /\ Type(x) = "dict" =>
           /\ DictKeys(x) = DictKeys(y)
           /\ \A k \in DictKeys(x) : SameVariants(DictGet(x, k), DictGet(y, k))

(* C7: values of different variants are never equal by coercion: when diff on *)
(* two sequences returns a semantically empty tree, the two have the same     *)
(* length and the same variant at every position and depth (a list never      *)
(* matches a tuple, nor a mapping the set of its items).                      *)
C7_EmptyTreeMeansSameVariants ==
    (Done /\ ~compare_with_func /\ Type(a) \in {"list", "tuple"} /\ Type(b) = Type(a)
          /\ IsTree(result) /\ ~Bool(result))
        => SameVariants(a, b)

\* the chunks the sequence differ walks through
ChunksOfCall ==
    get_grouped_opcodes([i \in 1..Len(Payload(a)) |-> HashKey(Payload(a)[i])],
                        [i \in 1..Len(Payload(b)) |-> HashKey(Payload(b)[i])], context)

(* C8: the result of the sequence differ holds an end marker iff the a-end    *)
(* index of the last opcode of the last shown chunk is smaller than the       *)
(* length of a; it is then the only one and the last entry of the tree.       *)
C8_OneEndMarkerAtTheEnd ==
    (Done /\ IsTree(result) /\ result.diffs # <<>>) =>
        LET last == ChunksOfCall[Len(ChunksOfCall)]
        IN Markers(result) = IF last[Len(last)][3] < Len(Payload(a))
                             THEN {Len(result.diffs)} ELSE {}

(* C9: for two sets and a context >= 0 the deleted items of the set differ    *)
(* are exactly the elements of a not in b, the inserted ones exactly those of *)
(* b not in a, the equal ones min(context, |a /\ b|) distinct elements of the *)
(* intersection, and there is an end marker iff |a /\ b| > context.           *)
C9_SetDifferPartition ==
    Done =>
        LET A == Payload(a)
            B == Payload(b)
            del == ItemsOf(result, {"delete"})
            ins == ItemsOf(result, {"insert"})
            eq == ItemsOf(result, {"equal"})
        IN /\ IsTree(result)
           /\ NoDuplicates(del) /\ Range(del) = A \ B
           /\ NoDuplicates(ins) /\ Range(ins) = B \ A
           /\ NoDuplicates(eq) /\ Range(eq) \subseteq A \cap B
           /\ Len(eq) = Min(context, Cardinality(A \cap B))
           /\ (Markers(result) # {}) <=> (Cardinality(A \cap B) > context)

\* a context that cuts the intersection, with elements on both sides only
C9_Witness ==
    /\ Done /\ context > 0 /\ Cardinality(Payload(a) \cap Payload(b)) > context
    /\ Payload(a) \ Payload(b) # {} /\ Payload(b) \ Payload(a) # {}
    /\ Markers(result) # {} /\ Len(ItemsOf(result, {"equal"})) = context

(* C10: for two different sequences of numbers and a context not smaller than *)
(* both lengths, the equal and delete items of the result, in entry order,    *)
(* are a, the equal and insert items are b, and no delete entry follows an    *)
(* insert entry: in a replace the deleted items come before the inserted.     *)
C10_ResultReconstructsInputs ==
    (Done /\ a # b /\ context >= Len(Payload(a)) /\ context >= Len(Payload(b))) =>
        /\ IsTree(result)
        /\ ItemsOf(result, {"equal", "delete"}) = Payload(a)
        /\ ItemsOf(result, {"equal", "insert"}) = Payload(b)
        /\ \A i \in 1..(Len(result.diffs) - 1) :
              result.diffs[i].change = "insert" => result.diffs[i + 1].change # "delete"

\* a replace whose a side is the longer one: paired deletes, the tail, inserts
C10_Witness ==
    /\ Done /\ a # b /\ context >= Len(Payload(a)) /\ context >= Len(Payload(b))
    /\ IsTree(result)
    /\ \E i \in 1..(Len(result.diffs) - 2) :
          /\ result.diffs[i].change = "delete" /\ result.diffs[i].items # <<>>
          /\ result.diffs[i + 1].change = "delete" /\ result.diffs[i + 1].items # <<>>
          /\ result.diffs[i + 2].change = "insert" /\ result.diffs[i + 2].items # <<>>
====
